---- MODULE Spec2Model ----
(***************************************************************************)
(* A model of um2nc (src/umami/um2nc.py): the conversion of a UM           *)
(* fieldsfile to netCDF.  The run specification Spec follows process()     *)
(* and the __main__ block statement by statement; SpecMask applies         *)
(* apply_mask to target/mask pairs drawn from bounded sets.                *)
(*                                                                         *)
(* A cube is a record.  Its data array has one element per pressure level  *)
(* (the horizontal grid is shared by all cubes of a file and is left out), *)
(* so the shape of a cube is the length of its pressure coordinate.  An    *)
(* array element is a rational num/den with a flag m (masked); den = 0     *)
(* stands for the IEEE results of a division by zero (inf, nan).           *)
(***************************************************************************)
EXTENDS Integers, Sequences, FiniteSets, TLC

VARIABLES
    args,               \* the parsed command line (argparse Namespace)
    pc,                 \* position in __main__ / process()
    grid_type,          \* "EG", "ND" or "unset"
    infile,             \* the cubes in the order the reader returned them
    cubes,              \* the CubeList process() works on (mutated in place)
    need_heaviside_uv, need_heaviside_t,
    have_heaviside_uv, have_heaviside_t,
    heaviside_uv, heaviside_t,   \* index into cubes of the registered mask (0: unbound)
    idx,                \* position of the field loop in cubes
    outExists,          \* a file exists at the output path
    globalAttrs,        \* global attributes given to the Saver
    written,            \* the cubes handed to sman.write, in order
    exitStatus,         \* -1 while running, then the exit status of the process
    mc, mh, mhcrit,     \* SpecMask: the arguments of apply_mask
    mout, mres,         \* SpecMask: the target cube after the call, the exception raised
    fin, fout           \* the specifications of single functions: arguments, results

vars == <<args, pc, grid_type, infile, cubes, need_heaviside_uv, need_heaviside_t,
          have_heaviside_uv, have_heaviside_t, heaviside_uv, heaviside_t, idx,
          outExists, globalAttrs, written, exitStatus, mc, mh, mhcrit, mout, mres,
          fin, fout>>

runVars == <<args, pc, grid_type, infile, cubes, need_heaviside_uv, need_heaviside_t,
             have_heaviside_uv, have_heaviside_t, heaviside_uv, heaviside_t, idx,
             outExists, globalAttrs, written, exitStatus>>

maskVars == <<mc, mh, mhcrit, mout, mres>>

unitVars == <<fin, fout>>

----------------------------------------------------------------------------
(* Bounds of the model *)

\* Largest number of cubes in an input file.
MaxFields == 2

\* Longest pressure coordinate of a target drawn in SpecMask (besides L4).
MaxTargetLevels == 2

\* Pressure levels, in hPa as the reader delivers them.
L4 == <<1000, 850, 500, 250>>
PLevels == {1000, 850, 500, 300, 250}
LevelSeqs == {L4, <<850, 500>>, <<850, 300>>}

\* Thresholds (--hcrit) and heaviside values, in tenths.
HcritDefault == 5
Hcrits == {0 - 5, 0, 5}
HvVals == {0, 5, 10}
TargetVals == {0, 7}

\* include/exclude lists (mutually exclusive; the empty set is "not given").
FilterChoices ==
    { [include_list |-> {}, exclude_list |-> {}],
      [include_list |-> {30294, 30302}, exclude_list |-> {}],
      [include_list |-> {}, exclude_list |-> {4, 30301}] }

----------------------------------------------------------------------------
(* Array elements *)

Elem(n, d) == [num |-> n, den |-> d, m |-> FALSE]

\* numpy true division of two array elements (np.errstate ignores x/0).
Quot(x, y) ==
    LET n == x.num * y.den
        d == x.den * y.num
    IN  IF d < 0 THEN [num |-> 0 - n, den |-> 0 - d] ELSE [num |-> n, den |-> d]

\* LeqHcrit with a strict comparison.
LeqHcrit_Strict(y, hcrit) == y.num * 10 < hcrit * y.den

\* heaviside.data <= hcrit, hcrit in tenths
LeqHcrit(y, hcrit) == y.num * 10 <= hcrit * y.den

----------------------------------------------------------------------------
(* Cubes *)

ItemCode(c) == 1000 * c.section + c.item

\* keyfunc: the STASH attribute, a tuple (model, section, item) ordered as
\* tuples are.
StashLess(a, b) ==
    \/ a.model < b.model
    \/ a.model = b.model /\ a.section < b.section
    \/ a.model = b.model /\ a.section = b.section /\ a.item < b.item

\* list.sort(key=keyfunc): a stable sort (insertion of each element after the
\* elements that are not greater).
RECURSIVE InsertSorted(_, _)
InsertSorted(c, s) ==
    IF s = <<>> THEN <<c>>
    ELSE IF StashLess(c, Head(s)) THEN <<c>> \o s
    ELSE <<Head(s)>> \o InsertSorted(c, Tail(s))

\* SortCubes without the sort: the reader's order.
SortCubes_Unsorted(s) == s

RECURSIVE SortCubes(_)
SortCubes(s) ==
    IF s = <<>> THEN <<>>
    ELSE InsertSorted(s[Len(s)], SortCubes(SubSeq(s, 1, Len(s) - 1)))

NeedsMaskUV(c) ==
    c.section = 30 /\ ((201 <= c.item /\ c.item <= 288) \/ (302 <= c.item /\ c.item <= 303))

NeedsMaskT(c) == c.section = 30 /\ 293 <= c.item /\ c.item <= 298

IsMaskUV(c) == c.section = 30 /\ c.item = 301

\* IsMaskT that overlooks a mask the include/exclude lists filter out.
IsMaskT_Filtered(c) ==
    /\ c.section = 30 /\ c.item = 304
    /\ (args.include_list = {} \/ 30304 \in args.include_list)
    /\ (args.exclude_list = {} \/ 30304 \notin args.exclude_list)

IsMaskT(c) == c.section = 30 /\ c.item = 304

\* The last index of s whose cube is item `item` of section 30 (0 if none):
\* the value the scan loop leaves in heaviside_uv / heaviside_t.
LastIndex(s, item) ==
    LET hits == {i \in 1..Len(s) : s[i].section = 30 /\ s[i].item = item}
    IN  IF hits = {} THEN 0 ELSE CHOOSE i \in hits : \A j \in hits : j <= i

\* FilteredOut without the test of the exclude list.
FilteredOut_IncludeOnly(c, a) ==
    a.include_list # {} /\ ItemCode(c) \notin a.include_list

\* The filters at the head of the field loop.
FilteredOut(c, a) ==
    \/ a.include_list # {} /\ ItemCode(c) \notin a.include_list
    \/ a.exclude_list # {} /\ ItemCode(c) \in a.exclude_list

Reverse(s) == [i \in 1..Len(s) |-> s[Len(s) + 1 - i]]

Range(s) == {s[i] : i \in 1..Len(s)}

----------------------------------------------------------------------------
(* apply_mask *)

\* MaskedDivide that divides and masks nothing.
MaskedDivide_Unmasked(cdata, hdata, hcrit) ==
    [i \in 1..Len(cdata) |->
        LET q == Quot(cdata[i], hdata[i])
        IN  [num |-> q.num, den |-> q.den, m |-> cdata[i].m]]

\* np.ma.masked_array(c.data/h.data, h.data <= hcrit).astype(np.float32)
MaskedDivide(cdata, hdata, hcrit) ==
    [i \in 1..Len(cdata) |->
        LET q == Quot(cdata[i], hdata[i])
        IN  [num |-> q.num, den |-> q.den,
             m |-> cdata[i].m \/ LeqHcrit(hdata[i], hcrit)]]

\* ExtractRows that takes the leading rows of the mask.
ExtractRows_Leading(h, points) == 1..Cardinality(points)

\* heaviside.extract(iris.Constraint(pressure=c_p.points)): the rows of the
\* mask whose pressure point is one of the target's, in the mask's order.
ExtractRows(h, points) == {i \in 1..Len(h.levels) : h.levels[i] \in points}

RECURSIVE PickRows(_, _, _)
PickRows(s, rows, i) ==
    IF i > Len(s) THEN <<>>
    ELSE (IF i \in rows THEN <<s[i]>> ELSE <<>>) \o PickRows(s, rows, i + 1)

\* apply_mask(c, heaviside, hcrit): the cube c afterwards and the exception
\* raised ("none", or the QValueError of a level mismatch).
ApplyMask(c, h, hcrit) ==
    IF Len(c.data) = Len(h.data)
    THEN [cube |-> [c EXCEPT !.data = MaskedDivide(c.data, h.data, hcrit),
                             !.dtype = "float32"],
          raised |-> "none"]
    ELSE IF Range(c.levels) \subseteq Range(h.levels)
    THEN LET rows == ExtractRows(h, Range(c.levels))
             hp   == PickRows(h.levels, rows, 1)
             hd   == PickRows(h.data, rows, 1)
         IN  IF hp # c.levels
             THEN [cube |-> c, raised |-> "QValueError"]
             ELSE [cube |-> [c EXCEPT !.data = MaskedDivide(c.data, hd, hcrit),
                                      !.dtype = "float32"],
                   raised |-> "none"]
    ELSE [cube |-> c, raised |-> "QValueError"]

----------------------------------------------------------------------------
(* cubewrite *)

Narrow(dtype, use64bit) ==
    IF use64bit THEN dtype
    ELSE IF dtype = "float64" THEN "float32"
    ELSE IF dtype = "int64" THEN "int32"
    ELSE dtype

\* The pressure coordinate after lines 112-116: 'positive' set, units
\* converted to Pa (hPa points are multiplied by 100), points rounded.
FixPressure(c) ==
    [c EXCEPT !.positive = TRUE,
              !.punits = "Pa",
              !.levels = IF c.punits = "hPa"
                         THEN [i \in 1..Len(c.levels) |-> 100 * c.levels[i]]
                         ELSE c.levels]

\* plevs.points[0] < plevs.points[-1]: iris.util.reverse returns a new cube,
\* which from here on is the local cube of cubewrite.
IsAscending(c) == Len(c.levels) > 0 /\ c.levels[1] < c.levels[Len(c.levels)]

\* The cube handed to sman.write.
WrittenCube(c, use64bit) ==
    LET p == FixPressure(c)
        l == IF IsAscending(p)
             THEN [p EXCEPT !.levels = Reverse(p.levels), !.data = Reverse(p.data)]
             ELSE p
    IN  [l EXCEPT !.dtype = Narrow(l.dtype, use64bit)]

\* The caller's cube (the element of cubes) after cubewrite returned: the
\* pressure coordinate is changed in place; the data are narrowed in place
\* unless the local cube was rebound to the reversed copy.
AfterCubewrite(c, use64bit) ==
    LET p == FixPressure(c)
    IN  IF IsAscending(p) THEN p ELSE [p EXCEPT !.dtype = Narrow(p.dtype, use64bit)]

----------------------------------------------------------------------------
(* The input: command lines and files *)

\* The heaviside value (tenths) and the field value the input files carry at
\* a pressure level: below ground at 1000 hPa, half at 850 hPa, free above.
HvAt(p) == IF p >= 1000 THEN 0 ELSE IF p >= 850 THEN 5 ELSE 10

DefaultData(code, levels) ==
    [i \in 1..Len(levels) |->
        IF code[1] = 30 /\ code[2] \in {301, 304}
        THEN Elem(HvAt(levels[i]), 10)
        ELSE Elem(levels[i], 1)]

\* A cube as iris.load returns it.
MkCube(code, levels, data, dtype, hasLatLon) ==
    [model |-> 1, section |-> code[1], item |-> code[2],
     levels |-> levels, punits |-> "hPa", positive |-> FALSE,
     data |-> data, dtype |-> dtype,
     hasLatLon |-> hasLatLon, latlonFixed |-> FALSE]

\* The cubes the input files are built from: one field outside section 30,
\* a wind-kind field before (30/201) and one after (30/302) the wind mask
\* 30/301, a temperature-kind field and the masks.  Fields that need a mask come
\* on the mask's levels, on a subset of them and on levels the mask lacks;
\* the masks come on L4; a cube without latitude/longitude (the time-series
\* layout) comes first and late in the sort order.  The fields are those of
\* the atmosphere (STASH model 1) but for one 0/4 of submodel 2.
MaskCodes == {<<30, 301>>, <<30, 304>>}

TargetCodes == {<<30, 201>>, <<30, 294>>, <<30, 302>>}

TimeSeriesCodes == {<<0, 4>>, <<30, 302>>}

FieldPool ==
    { MkCube(code, lv, DefaultData(code, lv), "float64", TRUE) :
        code \in TargetCodes, lv \in LevelSeqs }
    \cup { MkCube(code, L4, DefaultData(code, L4), "float64", TRUE) :
        code \in MaskCodes \cup {<<0, 4>>} }
    \cup { MkCube(code, L4, DefaultData(code, L4), "float64", FALSE) :
        code \in TimeSeriesCodes }
    \cup { [MkCube(<<0, 4>>, L4, DefaultData(<<0, 4>>, L4), "float64", TRUE)
               EXCEPT !.model = 2] }

\* The cubes of a file in reader order; id is the position in that order.
InputFiles ==
    UNION { { [i \in 1..n |-> [id |-> i] @@ f[i]] : f \in [1..n -> FieldPool] }
            : n \in 0..MaxFields }

ArgSets ==
    { [nomask |-> nm, nohist |-> nh, use64bit |-> u, hcrit |-> HcritDefault] @@ fc :
        nm \in BOOLEAN, nh \in BOOLEAN, u \in BOOLEAN, fc \in FilterChoices }

NoCube == MkCube(<<0, 0>>, <<>>, <<>>, "none", FALSE)

----------------------------------------------------------------------------
(* process(): one iteration of the field loop, lines 300-369 *)

MaskingOn(a) == ~a.nomask

\* ProcessField that writes a field unmasked when its mask is absent.
ProcessField_WriteUnmasked(c, a, haveUV, hUV, haveT, hT) ==
    IF FilteredOut(c, a) THEN [kind |-> "filtered", cube |-> c]
    ELSE IF ~c.hasLatLon THEN [kind |-> "SystemExit", cube |-> c]
    ELSE
      LET c1 == [c EXCEPT !.latlonFixed = TRUE]
          uv == MaskingOn(a) /\ NeedsMaskUV(c1) /\ haveUV
          t  == MaskingOn(a) /\ NeedsMaskT(c1) /\ haveT
          r  == IF uv THEN ApplyMask(c1, hUV, a.hcrit)
                ELSE IF t THEN ApplyMask(c1, hT, a.hcrit)
                ELSE [cube |-> c1, raised |-> "none"]
      IN  IF r.raised # "none" THEN [kind |-> "Exception", cube |-> r.cube]
          ELSE [kind |-> "written", cube |-> r.cube]

\* The outcome of the loop body for the cube c: "filtered" (continue at the
\* filters), "SystemExit" (no latitude/longitude), "skip" (continue, mask
\* absent), "Exception" (apply_mask raised) or "written", with the cube as
\* the body leaves it.
ProcessField(c, a, haveUV, hUV, haveT, hT) ==
    IF FilteredOut(c, a) THEN [kind |-> "filtered", cube |-> c]
    ELSE IF ~c.hasLatLon THEN [kind |-> "SystemExit", cube |-> c]
    ELSE
      LET c1 == [c EXCEPT !.latlonFixed = TRUE]
          uv == MaskingOn(a) /\ NeedsMaskUV(c1)
          t  == MaskingOn(a) /\ NeedsMaskT(c1)
      IN  IF uv /\ ~haveUV THEN [kind |-> "skip", cube |-> c1]
          ELSE
            LET r1 == IF uv THEN ApplyMask(c1, hUV, a.hcrit)
                      ELSE [cube |-> c1, raised |-> "none"]
            IN  IF r1.raised # "none" THEN [kind |-> "Exception", cube |-> r1.cube]
                ELSE IF t /\ ~haveT THEN [kind |-> "skip", cube |-> r1.cube]
                ELSE
                  LET r2 == IF t THEN ApplyMask(r1.cube, hT, a.hcrit)
                            ELSE r1
                  IN  IF r2.raised # "none"
                      THEN [kind |-> "Exception", cube |-> r2.cube]
                      ELSE [kind |-> "written", cube |-> r2.cube]

----------------------------------------------------------------------------
(* The conversion run: __main__ and process() *)

Init ==
    /\ args \in ArgSets
    /\ pc = "main"
    /\ grid_type = "unset"
    /\ infile = <<>>
    /\ cubes = <<>>
    /\ need_heaviside_uv = FALSE /\ need_heaviside_t = FALSE
    /\ have_heaviside_uv = FALSE /\ have_heaviside_t = FALSE
    /\ heaviside_uv = 0 /\ heaviside_t = 0
    /\ idx = 0
    /\ outExists = FALSE
    /\ globalAttrs = {}
    /\ written = <<>>
    /\ exitStatus = 0 - 1
    /\ mc = <<>> /\ mh = <<>> /\ mhcrit = 0 /\ mout = <<>> /\ mres = "unused"
    /\ fin = <<>> /\ fout = <<>>

\* Lines 239-245: the grid staggering of the header; 6 and 3 are supported,
\* any other value raises QValueError out of process().
GridStaggerings == {3, 6, 0}

DetermineGridContext ==
    /\ pc = "main"
    /\ \E gs \in GridStaggerings :
         IF gs = 6 THEN grid_type' = "EG" /\ pc' = "load" /\ exitStatus' = exitStatus
         ELSE IF gs = 3 THEN grid_type' = "ND" /\ pc' = "load" /\ exitStatus' = exitStatus
         ELSE grid_type' = grid_type /\ pc' = "exit" /\ exitStatus' = 1
    /\ UNCHANGED <<args, infile, cubes, need_heaviside_uv, need_heaviside_t,
                   have_heaviside_uv, have_heaviside_t, heaviside_uv, heaviside_t,
                   idx, outExists, globalAttrs, written>>
    /\ UNCHANGED maskVars
    /\ UNCHANGED unitVars

\* Lines 254-263: iris.load, then the sort by STASH code.
LoadCubes ==
    /\ pc = "load"
    /\ \E f \in InputFiles :
         /\ infile' = f
         /\ cubes' = SortCubes(f)
    /\ pc' = "scan"
    /\ UNCHANGED <<args, grid_type, need_heaviside_uv, need_heaviside_t,
                   have_heaviside_uv, have_heaviside_t, heaviside_uv, heaviside_t,
                   idx, outExists, globalAttrs, written, exitStatus>>
    /\ UNCHANGED maskVars
    /\ UNCHANGED unitVars

\* Lines 256-258: iris.load raises CannotAddError; SystemExit with a message.
LoadFails ==
    /\ pc = "load"
    /\ pc' = "exit"
    /\ exitStatus' = 1
    /\ UNCHANGED <<args, grid_type, infile, cubes, need_heaviside_uv, need_heaviside_t,
                   have_heaviside_uv, have_heaviside_t, heaviside_uv, heaviside_t,
                   idx, outExists, globalAttrs, written>>
    /\ UNCHANGED maskVars
    /\ UNCHANGED unitVars

\* Lines 268-289: the scan for fields that need a mask and for the masks.
ScanForMaskFields ==
    /\ pc = "scan"
    /\ need_heaviside_uv' = (\E i \in 1..Len(cubes) : NeedsMaskUV(cubes[i]))
    /\ need_heaviside_t' = (\E i \in 1..Len(cubes) : NeedsMaskT(cubes[i]))
    /\ have_heaviside_uv' = (\E i \in 1..Len(cubes) : IsMaskUV(cubes[i]))
    /\ have_heaviside_t' = (\E i \in 1..Len(cubes) : IsMaskT(cubes[i]))
    /\ heaviside_uv' = LastIndex(cubes, 301)
    /\ heaviside_t' = LastIndex(cubes, 304)
    /\ pc' = "open"
    /\ UNCHANGED <<args, grid_type, infile, cubes, idx, outExists, globalAttrs,
                   written, exitStatus>>
    /\ UNCHANGED maskVars
    /\ UNCHANGED unitVars

\* Lines 292-298: the Saver creates the output file; global attributes.
\* GlobalAttributes with the test of --nohist inverted.
GlobalAttributes_Inverted(a) ==
    (IF a.nohist THEN {<<"history", "File <infile> converted">>} ELSE {})
        \cup {<<"Conventions", "CF-1.6">>}

HistoryText == "File <infile> converted with um2netcdf_iris.py v2.1 at <now>"

GlobalAttributes(a) ==
    (IF ~a.nohist THEN {<<"history", HistoryText>>} ELSE {})
        \cup {<<"Conventions", "CF-1.6">>}

OpenSaver ==
    /\ pc = "open"
    /\ outExists' = TRUE
    /\ globalAttrs' = GlobalAttributes(args)
    /\ idx' = 1
    /\ pc' = "loop"
    /\ UNCHANGED <<args, grid_type, infile, cubes, need_heaviside_uv, need_heaviside_t,
                   have_heaviside_uv, have_heaviside_t, heaviside_uv, heaviside_t,
                   written, exitStatus>>
    /\ UNCHANGED maskVars
    /\ UNCHANGED unitVars

InLoop == pc = "loop" /\ idx <= Len(cubes)

MaskCube(i) == IF i = 0 THEN NoCube ELSE cubes[i]

\* The outcome of the loop body for the current cube.
Outcome ==
    ProcessField(cubes[idx], args, have_heaviside_uv, MaskCube(heaviside_uv),
                 have_heaviside_t, MaskCube(heaviside_t))

loopFrame == <<args, grid_type, infile, need_heaviside_uv, need_heaviside_t,
               have_heaviside_uv, have_heaviside_t, heaviside_uv, heaviside_t,
               globalAttrs>>

\* Lines 303-306: continue.
FilterSkip ==
    /\ InLoop
    /\ Outcome.kind = "filtered"
    /\ idx' = idx + 1
    /\ UNCHANGED <<cubes, pc, outExists, written, exitStatus>>
    /\ UNCHANGED loopFrame
    /\ UNCHANGED maskVars
    /\ UNCHANGED unitVars

\* Lines 344-350: fix_latlon_coord finds no latitude/longitude; SystemExit
\* is no Exception, so it leaves the with block (the Saver closes the file)
\* and passes the except clause of line 370.
LayoutAbort ==
    /\ InLoop
    /\ Outcome.kind = "SystemExit"
    /\ pc' = "exit"
    /\ exitStatus' = 1
    /\ UNCHANGED <<cubes, idx, outExists, written>>
    /\ UNCHANGED loopFrame
    /\ UNCHANGED maskVars
    /\ UNCHANGED unitVars

\* Lines 356-359, 363-366: the mask of the field's kind is absent; continue.
MaskSkip ==
    /\ InLoop
    /\ Outcome.kind = "skip"
    /\ cubes' = [cubes EXCEPT ![idx] = Outcome.cube]
    /\ idx' = idx + 1
    /\ UNCHANGED <<pc, outExists, written, exitStatus>>
    /\ UNCHANGED loopFrame
    /\ UNCHANGED maskVars
    /\ UNCHANGED unitVars

\* Lines 370-373: an Exception raised in the loop body: the Saver closes the
\* file, the except clause unlinks it and prints the traceback, process()
\* returns and the script ends.
ExceptionAbort ==
    /\ InLoop
    /\ Outcome.kind = "Exception"
    /\ cubes' = [cubes EXCEPT ![idx] = Outcome.cube]
    /\ outExists' = FALSE
    /\ pc' = "exit"
    /\ exitStatus' = 0
    /\ UNCHANGED <<idx, written>>
    /\ UNCHANGED loopFrame
    /\ UNCHANGED maskVars
    /\ UNCHANGED unitVars

\* Line 369: cubewrite.
TransformWrite ==
    /\ InLoop
    /\ Outcome.kind = "written"
    /\ written' = Append(written, WrittenCube(Outcome.cube, args.use64bit))
    /\ cubes' = [cubes EXCEPT ![idx] = AfterCubewrite(Outcome.cube, args.use64bit)]
    /\ idx' = idx + 1
    /\ UNCHANGED <<pc, outExists, exitStatus>>
    /\ UNCHANGED loopFrame
    /\ UNCHANGED maskVars
    /\ UNCHANGED unitVars

\* The loop is exhausted: the with block closes the file, process() returns.
CloseSaver ==
    /\ pc = "loop"
    /\ idx > Len(cubes)
    /\ pc' = "exit"
    /\ exitStatus' = 0
    /\ UNCHANGED <<cubes, idx, outExists, written>>
    /\ UNCHANGED loopFrame
    /\ UNCHANGED maskVars
    /\ UNCHANGED unitVars

Next ==
    \/ DetermineGridContext
    \/ LoadCubes
    \/ LoadFails
    \/ ScanForMaskFields
    \/ OpenSaver
    \/ FilterSkip
    \/ LayoutAbort
    \/ MaskSkip
    \/ ExceptionAbort
    \/ TransformWrite
    \/ CloseSaver

Spec == Init /\ [][Next]_vars

----------------------------------------------------------------------------
(* apply_mask on its own: target, mask and threshold drawn from bounded sets *)

\* The sequences of length n of distinct elements of S.
InjSeqs(S, n) == {q \in [1..n -> S] : \A i, j \in 1..n : q[i] = q[j] => i = j}

MaskTargetLevelSeqs ==
    UNION {InjSeqs(PLevels, n) : n \in 1..MaxTargetLevels} \cup {L4}

MaskMaskLevelSeqs == {L4, <<850, 500>>}

MaskTargets ==
    UNION { { MkCube(<<30, 294>>, lv, d, "float64", TRUE) :
                d \in [1..Len(lv) -> {Elem(v, 1) : v \in TargetVals}] }
            : lv \in MaskTargetLevelSeqs }

MaskMasks ==
    UNION { { MkCube(<<30, 304>>, lv, d, "float64", TRUE) :
                d \in [1..Len(lv) -> {Elem(v, 10) : v \in HvVals}] }
            : lv \in MaskMaskLevelSeqs }

InitMask ==
    /\ mc \in MaskTargets
    /\ mh \in MaskMasks
    /\ mhcrit \in Hcrits
    /\ mout = <<>>
    /\ mres = "pending"
    /\ fin = <<>> /\ fout = <<>>
    /\ args = [nomask |-> FALSE, nohist |-> FALSE, use64bit |-> FALSE,
               hcrit |-> HcritDefault, include_list |-> {}, exclude_list |-> {}]
    /\ pc = "apply_mask"
    /\ grid_type = "unset"
    /\ infile = <<>>
    /\ cubes = <<>>
    /\ need_heaviside_uv = FALSE /\ need_heaviside_t = FALSE
    /\ have_heaviside_uv = FALSE /\ have_heaviside_t = FALSE
    /\ heaviside_uv = 0 /\ heaviside_t = 0
    /\ idx = 0
    /\ outExists = FALSE
    /\ globalAttrs = {}
    /\ written = <<>>
    /\ exitStatus = 0 - 1

ApplyMaskCall ==
    /\ mres = "pending"
    /\ LET r == ApplyMask(mc, mh, mhcrit)
       IN  /\ mout' = r.cube
           /\ mres' = r.raised
    /\ UNCHANGED <<mc, mh, mhcrit>>
    /\ UNCHANGED runVars
    /\ UNCHANGED unitVars

NextMask == ApplyMaskCall

SpecMask == InitMask /\ [][NextMask]_vars

----------------------------------------------------------------------------
(* Vocabulary of the properties *)

\* The run has ended.
Exited == pc = "exit"

\* The run ended inside the field loop, after the output file was opened.
AbortedInLoop == Exited /\ idx >= 1 /\ idx <= Len(cubes)

\* The run ended before the output file was opened.
AbortedBeforeOpen == Exited /\ idx = 0

\* The run went through the whole field loop.
Completed == Exited /\ idx > Len(cubes)

\* The cube as the reader delivered it.
Original(c) == infile[c.id]

WrittenIds == {written[k].id : k \in 1..Len(written)}

\* The filter rule, on the item code.
PassesFilter(code) ==
    /\ (args.include_list = {} \/ code \in args.include_list)
    /\ (args.exclude_list = {} \/ code \notin args.exclude_list)

IsWindKind(c) ==
    c.section = 30 /\ (c.item \in 201..288 \/ c.item \in 302..303)

IsTempKind(c) == c.section = 30 /\ c.item \in 293..298

\* The input file contains the mask field of the cube's kind.
FileHasMaskFor(c) ==
    \/ IsWindKind(c) /\ \E i \in 1..Len(infile) : ItemCode(infile[i]) = 30301
    \/ IsTempKind(c) /\ \E i \in 1..Len(infile) : ItemCode(infile[i]) = 30304

\* The cube is of a kind that needs a mask and the file has no such mask.
LacksMask(c) == (IsWindKind(c) \/ IsTempKind(c)) /\ ~FileHasMaskFor(c)

\* The output element o is x divided by y, missing where y <= hcrit (tenths).
ElemIsMaskedQuotient(o, x, y, hcrit) ==
    IF y.num * 10 <= hcrit * y.den
    THEN o.m
    ELSE /\ ~o.m
         /\ IF y.num # 0
            THEN o.den # 0 /\ o.num * x.den * y.num = x.num * y.den * o.den
            ELSE o.den = 0

\* The position of the pressure level p in the sequence lv (0 if absent).
PosOf(lv, p) ==
    IF \E j \in 1..Len(lv) : lv[j] = p
    THEN CHOOSE j \in 1..Len(lv) : lv[j] = p
    ELSE 0

\* The data d are those of the cube x masked by the rows of the mask h at
\* the levels of x.
DataMaskedBy(d, x, h, hcrit) ==
    /\ Len(d) = Len(x.data)
    /\ \A i \in 1..Len(d) :
         /\ PosOf(h.levels, x.levels[i]) # 0
         /\ ElemIsMaskedQuotient(d[i], x.data[i],
                                 h.data[PosOf(h.levels, x.levels[i])], hcrit)

\* The last cube of the input file with the item code (the one the scan keeps).
FileMask(code) ==
    LET s == SortCubes(infile)
        hits == {i \in 1..Len(s) : ItemCode(s[i]) = code}
    IN  s[CHOOSE i \in hits : \A j \in hits : j <= i]

FileMaskFor(c) == IF IsWindKind(c) THEN FileMask(30301) ELSE FileMask(30304)

----------------------------------------------------------------------------
(* C1 - C3: properties the code does not have *)

\* C1: no partial-success output: whenever a run ends on a failure that
\* occurred after the output file was opened, no file exists at the output
\* path, however many fields were written before.
C1_NoPartialOutput == AbortedInLoop => ~outExists

\* C2: a run that aborts on a fatal error ends with a non-zero exit status;
\* a run ends with exit status zero only when every field that was not
\* skipped was written and the output file exists.
C2_ExitStatus ==
    Exited =>
      /\ (AbortedBeforeOpen \/ AbortedInLoop) => exitStatus # 0
      /\ exitStatus = 0 =>
           /\ outExists
           /\ \A i \in 1..Len(cubes) :
                (PassesFilter(ItemCode(cubes[i])) /\ (args.nomask \/ ~LacksMask(cubes[i])))
                   => cubes[i].id \in WrittenIds

\* C3: the mask registry is read-only after the scan: whenever the loop body
\* is about to hand a registered mask field to apply_mask, that field (data,
\* pressure points and units, other attributes) is as the scan registered it.
C3_MaskReadOnly ==
    (InLoop /\ ~args.nomask /\ cubes[idx].hasLatLon
        /\ PassesFilter(ItemCode(cubes[idx]))) =>
      /\ (IsWindKind(cubes[idx]) /\ have_heaviside_uv)
            => cubes[heaviside_uv] = Original(cubes[heaviside_uv])
      /\ (IsTempKind(cubes[idx]) /\ have_heaviside_t)
            => cubes[heaviside_t] = Original(cubes[heaviside_t])

----------------------------------------------------------------------------
(* C4 - C8: the field loop *)

\* C4: with masking enabled a written field of the wind kind (30/201-288,
\* 302-303) or the temperature kind (30/293-298) has its mask in the file and
\* went through apply_mask with it; a field whose mask is absent is not
\* written, raises no error and does not keep the other fields from being
\* processed and written; with --nomask such fields are written unmasked.
C4_Masking ==
    /\ \A k \in 1..Len(written) :
         LET w == written[k] IN
         (IsWindKind(w) \/ IsTempKind(w)) =>
            IF args.nomask
            THEN w.data = Original(w).data /\ w.dtype = Narrow(Original(w).dtype, args.use64bit)
            ELSE /\ FileHasMaskFor(w)
                 /\ DataMaskedBy(w.data, Original(w), FileMaskFor(w), args.hcrit)
                 /\ w.dtype = "float32"
    /\ (AbortedInLoop /\ ~args.nomask /\ LacksMask(cubes[idx])) => ~cubes[idx].hasLatLon
    /\ \A i \in 1..Len(cubes) :
         (i < idx /\ PassesFilter(ItemCode(cubes[i]))
            /\ (args.nomask \/ ~LacksMask(cubes[i])))
           => cubes[i].id \in WrittenIds

C4_Witness ==
    /\ Completed /\ exitStatus = 0 /\ ~args.nomask
    /\ \E i, j \in 1..Len(cubes) :
         /\ i < j
         /\ LacksMask(cubes[i]) /\ PassesFilter(ItemCode(cubes[i]))
         /\ cubes[i].id \notin WrittenIds
         /\ cubes[j].id \in WrittenIds

\* C5: a field is written only if (the include list is empty or holds its
\* item code) and (the exclude list is empty or does not hold it); a field
\* that is filtered out is never modified, ends no run, and the fields after
\* it that pass the filter are still processed.
C5_Filtering ==
    /\ \A k \in 1..Len(written) : PassesFilter(1000 * written[k].section + written[k].item)
    /\ \A i \in 1..Len(cubes) :
         ~PassesFilter(ItemCode(cubes[i])) => cubes[i] = Original(cubes[i])
    /\ AbortedInLoop => PassesFilter(ItemCode(cubes[idx]))
    /\ \A i \in 1..Len(cubes) :
         (i < idx /\ PassesFilter(ItemCode(cubes[i]))) => cubes[i].latlonFixed

C5_Witness ==
    /\ Completed
    /\ \E i, j \in 1..Len(cubes) :
         /\ i < j
         /\ ~PassesFilter(ItemCode(cubes[i]))
         /\ cubes[j].id \in WrittenIds

\* C6 as stated: the fields are handed to the writer in the order of their
\* classification code (section, then item), whatever the reader's order.
C6_CanonicalOrder ==
    \A i, j \in 1..Len(written) :
       i < j =>
         /\ 1000 * written[i].section + written[i].item
               <= 1000 * written[j].section + written[j].item
         /\ \/ written[i].section < written[j].section
            \/ /\ written[i].section = written[j].section
               /\ written[i].item <= written[j].item

\* C6 amended: the fields are handed to the writer in the order of their
\* STASH code (model number, then section, then item), whatever the reader's
\* order; among the fields of one model number that is the order of section,
\* then item.
C6_StashOrder ==
    \A i, j \in 1..Len(written) :
       i < j =>
         /\ written[i].model <= written[j].model
         /\ written[i].model = written[j].model =>
              /\ written[i].section <= written[j].section
              /\ written[i].section = written[j].section =>
                   written[i].item <= written[j].item

C6_Witness ==
    /\ Exited
    /\ \E i, j \in 1..Len(infile) :
         /\ i < j
         /\ infile[i].model > infile[j].model
         /\ ItemCode(infile[i]) < ItemCode(infile[j])
         /\ Len(written) = 2
         /\ written[1].id = j /\ written[2].id = i

\* The file of the end-to-end case: one temperature-kind field and the mask
\* 30/304 on the same pressure levels, masking enabled, no filter.
C7_Fixture ==
    /\ Len(infile) = 2
    /\ \E i, j \in 1..2 :
         /\ IsTempKind(infile[i])
         /\ ItemCode(infile[j]) = 30304
         /\ infile[i].levels = infile[j].levels
         /\ infile[i].hasLatLon /\ infile[j].hasLatLon
    /\ ~args.nomask
    /\ args.include_list = {} /\ args.exclude_list = {}

\* C7 as claimed: the conversion of that file produces exactly one output
\* variable, the masked temperature field.
C7_OneVariable ==
    (Exited /\ C7_Fixture) =>
       /\ Len(written) = 1
       /\ IsTempKind(written[1])
       /\ DataMaskedBy(written[1].data, Original(written[1]), FileMask(30304), args.hcrit)

\* C7 as amended: the conversion of that file succeeds and produces exactly
\* two output variables: the masked temperature field, then the mask field
\* 30/304 itself with its data unchanged.
C7_TwoVariables ==
    (Exited /\ C7_Fixture) =>
       /\ Completed /\ exitStatus = 0 /\ outExists
       /\ Len(written) = 2
       /\ IsTempKind(written[1])
       /\ DataMaskedBy(written[1].data, Original(written[1]), FileMask(30304), args.hcrit)
       /\ 1000 * written[2].section + written[2].item = 30304
       /\ written[2].data = Original(written[2]).data

C7_Witness ==
    /\ Exited /\ C7_Fixture
    /\ Len(written) = 2
    /\ \E i \in 1..Len(written[1].data) : written[1].data[i].m
    /\ \E i \in 1..Len(written[1].data) : ~written[1].data[i].m

\* C8: a run that completes leaves an output whose global attributes hold
\* the Conventions tag, and a history attribute (input path and time stamp)
\* exactly when --nohist is not set.
C8_GlobalAttributes ==
    Completed =>
       /\ outExists
       /\ <<"Conventions", "CF-1.6">> \in globalAttrs
       /\ (\E p \in globalAttrs : p[1] = "history") <=> ~args.nohist
       /\ \A p \in globalAttrs : p[1] = "history" => p[2] = HistoryText

C8_Witness ==
    /\ Completed /\ exitStatus = 0 /\ outExists
    /\ args.nohist
    /\ Len(written) > 0

----------------------------------------------------------------------------
(* C9, C10: apply_mask *)

\* Every pressure level of the target is one of the mask's.
LevelsSubset(c, h) == \A i \in 1..Len(c.levels) : PosOf(h.levels, c.levels[i]) # 0

\* The mask restricted to the target's levels has the target's pressure
\* coordinate: the levels are the mask's and come in the mask's order.
RestrictionIdentical(c, h) ==
    /\ LevelsSubset(c, h)
    /\ \A i, j \in 1..Len(c.levels) :
         i < j => PosOf(h.levels, c.levels[i]) < PosOf(h.levels, c.levels[j])

\* C9: for a target and a mask of differing shapes, apply_mask succeeds when
\* the target's levels are levels of the mask and the restricted mask has the
\* target's pressure coordinate, and then divides by exactly the mask rows at
\* the target's levels; otherwise it raises the level-mismatch error and
\* leaves the target's data as they were.
C9_SubsetMasking ==
    (mres # "pending" /\ Len(mc.levels) # Len(mh.levels)) =>
       IF RestrictionIdentical(mc, mh)
       THEN /\ mres = "none"
            /\ DataMaskedBy(mout.data, mc, mh, mhcrit)
            /\ mout.levels = mc.levels
       ELSE /\ mres = "QValueError"
            /\ mout.data = mc.data
            /\ mout = mc

\* The case of the specification: mask levels (1000, 850, 500, 250), target
\* levels (850, 500); the mask is open at 1000 and closed at 850, and the
\* result is missing at 850 and present at 500.
C9_Witness ==
    /\ mres = "none"
    /\ mh.levels = L4 /\ mc.levels = <<850, 500>>
    /\ mhcrit = 5
    /\ mh.data[1].num = 10 /\ mh.data[2].num = 0 /\ mh.data[3].num = 10
    /\ mout.data[1].m /\ ~mout.data[2].m

\* C10: for a target and a mask of identical shape, apply_mask raises
\* nothing; the output element at a position is missing if the mask value
\* there is <= the threshold and is otherwise the target value divided by
\* the mask value; a zero mask value is masked for a threshold >= 0.
C10_IdenticalShapes ==
    (mres # "pending" /\ Len(mc.data) = Len(mh.data)) =>
       /\ mres = "none"
       /\ Len(mout.data) = Len(mc.data)
       /\ \A i \in 1..Len(mc.data) :
            /\ ElemIsMaskedQuotient(mout.data[i], mc.data[i], mh.data[i], mhcrit)
            /\ (mh.data[i].num = 0 /\ mhcrit >= 0) => mout.data[i].m

C10_Witness ==
    /\ mres = "none"
    /\ Len(mc.data) = Len(mh.data)
    /\ mhcrit >= 0
    /\ \E i, j \in 1..Len(mc.data) :
         /\ mh.data[i].num = 0 /\ mout.data[i].m
         /\ mh.data[j].num * 10 > mhcrit * mh.data[j].den
         /\ mc.data[j].num # 0 /\ ~mout.data[j].m

----------------------------------------------------------------------------
(* C17: the scan for the masks and the filters *)

\* The file holds the mask of the cube's kind and the filters keep that mask
\* out of the output.
MaskFilteredOut(c) ==
    /\ FileHasMaskFor(c)
    /\ ~PassesFilter(ItemCode(FileMaskFor(c)))

\* C17: a mask field (30/301, 30/304) of the input file is registered and
\* used whether or not the include/exclude lists keep it: with masking on, a
\* field whose mask is filtered out is not skipped for that, is masked with
\* that mask when it is written, and the mask itself is not written.
C17_ScanIgnoresFilters ==
    /\ \A k \in 1..Len(written) :
         LET w == written[k] IN
         ((IsWindKind(w) \/ IsTempKind(w)) /\ ~args.nomask /\ MaskFilteredOut(w)) =>
            /\ DataMaskedBy(w.data, Original(w), FileMaskFor(w), args.hcrit)
            /\ ItemCode(FileMaskFor(w)) \notin {ItemCode(written[n]) : n \in 1..Len(written)}
    /\ \A i \in 1..Len(cubes) :
         (i < idx /\ (IsWindKind(cubes[i]) \/ IsTempKind(cubes[i])) /\ ~args.nomask
            /\ MaskFilteredOut(cubes[i]) /\ PassesFilter(ItemCode(cubes[i])))
           => cubes[i].id \in WrittenIds

C17_Witness ==
    /\ Completed /\ exitStatus = 0 /\ ~args.nomask
    /\ Len(written) = 1
    /\ IsTempKind(written[1])
    /\ MaskFilteredOut(written[1])
    /\ \E i \in 1..Len(written[1].data) : written[1].data[i].m

----------------------------------------------------------------------------
(* Single steps of the field loop and of cubewrite, applied to arguments    *)
(* drawn from bounded sets.  fin holds the arguments, fout the result, pc   *)
(* the position; the variables of the run stay at rest.                     *)

restVars == <<args, grid_type, infile, cubes, need_heaviside_uv, need_heaviside_t,
              have_heaviside_uv, have_heaviside_t, heaviside_uv, heaviside_t, idx,
              outExists, globalAttrs, written, exitStatus, mc, mh, mhcrit, mout, mres>>

RestIdle ==
    /\ args = [nomask |-> FALSE, nohist |-> FALSE, use64bit |-> FALSE,
               hcrit |-> HcritDefault, include_list |-> {}, exclude_list |-> {}]
    /\ grid_type = "unset"
    /\ infile = <<>>
    /\ cubes = <<>>
    /\ need_heaviside_uv = FALSE /\ need_heaviside_t = FALSE
    /\ have_heaviside_uv = FALSE /\ have_heaviside_t = FALSE
    /\ heaviside_uv = 0 /\ heaviside_t = 0
    /\ idx = 0
    /\ outExists = FALSE
    /\ globalAttrs = {}
    /\ written = <<>>
    /\ exitStatus = 0 - 1
    /\ mc = <<>> /\ mh = <<>> /\ mhcrit = 0 /\ mout = <<>> /\ mres = "unused"

\* The sequences over S of length at most n.
BoundedSeqs(S, n) == UNION {[1..k -> S] : k \in 0..n}

----------------------------------------------------------------------------
(* The variable name: process(), lines 307-317 *)

MaxMethods == 2

Digit == <<"0", "1", "2", "3", "4", "5", "6", "7", "8", "9">>

\* '%d' of a non-negative integer.
RECURSIVE Dec(_)
Dec(n) == IF n < 10 THEN Digit[n + 1] ELSE Dec(n \div 10) \o Digit[(n % 10) + 1]

\* The precision of '%2.2d', '%3.3d': at least w digits, zeros in front.
RECURSIVE ZeroPad(_, _)
ZeroPad(s, w) == IF Len(s) < w THEN ZeroPad("0" \o s, w) ELSE s

\* 'fld_s%2.2di%3.3d' % (stashcode.section, stashcode.item)
SimpleName(section, item) ==
    "fld_s" \o ZeroPad(Dec(section), 2) \o "i" \o ZeroPad(Dec(item), 3)

\* any([m.method == name for m in c.cell_methods])
AnyMethod(methods, name) == \E k \in 1..Len(methods) : methods[k] = name

\* The name with "elif" in place of the second "if": one suffix at most.
VarName_Exclusive(var_name, section, item, simple, uniquename, methods) ==
    LET base == IF simple THEN SimpleName(section, item)
                ELSE IF uniquename # "" THEN uniquename
                ELSE var_name
    IN  IF base # ""
        THEN IF AnyMethod(methods, "maximum") THEN base \o "_max"
             ELSE IF AnyMethod(methods, "minimum") THEN base \o "_min"
             ELSE base
        ELSE base

\* c.var_name after lines 308-317; var_name is the name the cube came with
\* ("" stands for None: both are false in "if c.var_name:").
VarName(var_name, section, item, simple, uniquename, methods) ==
    LET base == IF simple THEN SimpleName(section, item)
                ELSE IF uniquename # "" THEN uniquename
                ELSE var_name
        withMax == IF AnyMethod(methods, "maximum") THEN base \o "_max" ELSE base
        withMin == IF AnyMethod(methods, "minimum") THEN withMax \o "_min" ELSE withMax
    IN  IF base # "" THEN withMin ELSE base

\* The reader sets no var_name on the cubes of a fieldsfile.
NoName == ""

NameCodes == {<<0, 4>>, <<3, 236>>, <<30, 301>>, <<30, 4>>}

\* umvar.uniquename: empty for the items the STASH table gives no name.
UniqueNames == {"", "tas", "ua_plev"}

MethodNames == {"mean", "maximum", "minimum"}

InitName ==
    /\ RestIdle
    /\ pc = "name"
    /\ fin \in [var_name : {NoName}, code : NameCodes, simple : BOOLEAN,
                uniquename : UniqueNames,
                methods : BoundedSeqs(MethodNames, MaxMethods)]
    /\ fout = <<>>

NameField ==
    /\ pc = "name"
    /\ fout' = VarName(fin.var_name, fin.code[1], fin.code[2], fin.simple,
                       fin.uniquename, fin.methods)
    /\ pc' = "named"
    /\ UNCHANGED fin
    /\ UNCHANGED restVars

NextName == NameField

SpecName == InitName /\ [][NextName]_vars

\* The template names written out.
TemplateOf(code) ==
    CASE code = <<0, 4>>    -> "fld_s00i004"
      [] code = <<3, 236>>  -> "fld_s03i236"
      [] code = <<30, 301>> -> "fld_s30i301"
      [] code = <<30, 4>>   -> "fld_s30i004"

HasMax == \E k \in 1..Len(fin.methods) : fin.methods[k] = "maximum"
HasMin == \E k \in 1..Len(fin.methods) : fin.methods[k] = "minimum"

\* The base name of the claim: the template or the resolver's unique name.
ClaimBase == IF fin.simple THEN TemplateOf(fin.code) ELSE fin.uniquename

Suffixed(base) ==
    (IF HasMax THEN base \o "_max" ELSE base) \o (IF HasMin THEN "_min" ELSE "")

\* C11 as stated: the variable name is the base (template when simple naming
\* is on, otherwise the resolver's unique name) with "_max" appended whenever
\* a cell method is a maximum and "_min" whenever one is a minimum.
C11_SuffixWhenever ==
    pc = "named" => fout = Suffixed(ClaimBase)

\* C11 amended: the name is the base with the suffixes when the base is not
\* empty; when simple naming is off and the resolver has no unique name, no
\* name is set and no suffix is appended, whatever the cell methods.
C11_SuffixWhenNamed ==
    pc = "named" =>
        /\ ClaimBase # "" => fout = Suffixed(ClaimBase)
        /\ ClaimBase = "" => fout = NoName

C11_Witness ==
    /\ pc = "named"
    /\ fin.simple /\ fin.code = <<3, 236>>
    /\ HasMax /\ HasMin
    /\ fout = "fld_s03i236_max_min"

----------------------------------------------------------------------------
(* fix_cell_methods, lines 190-201 *)

MaxIntervals == 2

\* Interval descriptors, as the sequences of their characters.
Hour1 == <<"1", " ", "h", "o", "u", "r">>
Hours6 == <<"6", "h", "o", "u", "r", "s">>
Day1 == <<"1", " ", "d", "a", "y">>
HouR == <<"h", "o", "u", " ", "r">>

HourWord == <<"h", "o", "u", "r">>

\* str.find from the 1-based position k on: the 0-based position of the
\* first occurrence of sub in s, -1 if there is none.
RECURSIVE FindFrom(_, _, _)
FindFrom(s, sub, k) ==
    IF k + Len(sub) - 1 > Len(s) THEN 0 - 1
    ELSE IF SubSeq(s, k, k + Len(sub) - 1) = sub THEN k - 1
    ELSE FindFrom(s, sub, k + 1)

\* A search that looks at the start of s only (str.startswith).
Find_AtStart(s, sub) ==
    IF Len(sub) <= Len(s) /\ SubSeq(s, 1, Len(sub)) = sub THEN 0 ELSE 0 - 1

\* i.find(sub)
Find(s, sub) == FindFrom(s, sub, 1)

\* The inner loop: newi collects the intervals without 'hour', in order.
RECURSIVE NewIntervals(_)
NewIntervals(intervals) ==
    IF intervals = <<>> THEN <<>>
    ELSE IF Find(Head(intervals), HourWord) = 0 - 1
         THEN <<Head(intervals)>> \o NewIntervals(Tail(intervals))
         ELSE NewIntervals(Tail(intervals))

\* CellMethod(m.method, m.coord_names, tuple(newi), m.comments)
CellMethod(method, coord_names, intervals, comments) ==
    [method |-> method, coord_names |-> coord_names,
     intervals |-> intervals, comments |-> comments]

\* The outer loop: one new CellMethod per cell method, in order.
RECURSIVE fix_cell_methods(_)
fix_cell_methods(mtuple) ==
    IF mtuple = <<>> THEN <<>>
    ELSE LET m == Head(mtuple)
         IN  <<CellMethod(m.method, m.coord_names, NewIntervals(m.intervals), m.comments)>>
             \o fix_cell_methods(Tail(mtuple))

CellMethodPool ==
    {CellMethod("mean", <<"time">>, i, <<>>) : i \in BoundedSeqs({Hour1, Day1, HouR}, MaxIntervals)}
    \cup {CellMethod("maximum", <<"time">>, <<Hours6>>, <<"daily">>),
          CellMethod("minimum", <<"time", "pressure">>, <<Day1, Hours6>>, <<>>)}

InitCell ==
    /\ RestIdle
    /\ pc = "fix"
    /\ fin \in BoundedSeqs(CellMethodPool, MaxMethods)
    /\ fout = <<>>

\* c.cell_methods = fix_cell_methods(c.cell_methods)
FixCellMethods ==
    /\ pc = "fix"
    /\ fout' = <<fix_cell_methods(fin)>>
    /\ pc' = "fixed"
    /\ UNCHANGED fin
    /\ UNCHANGED restVars

\* The function applied to its own result.
FixAgain ==
    /\ pc = "fixed"
    /\ fout' = Append(fout, fix_cell_methods(fout[1]))
    /\ pc' = "fixed twice"
    /\ UNCHANGED fin
    /\ UNCHANGED restVars

NextCell == FixCellMethods \/ FixAgain

SpecCell == InitCell /\ [][NextCell]_vars

\* The descriptor has the characters h, o, u, r in a row somewhere.
ContainsHour(i) ==
    \E k \in 1..Len(i) :
        /\ k + 3 <= Len(i)
        /\ i[k] = "h" /\ i[k + 1] = "o" /\ i[k + 2] = "u" /\ i[k + 3] = "r"

NoHour(i) == ~ContainsHour(i)

\* C13: fix_cell_methods applied to its own result returns that result; one
\* application returns the cell methods in their order with method,
\* coordinates and comments unchanged and with exactly the intervals that do
\* not contain "hour", in their order.
C13_Idempotent ==
    /\ Len(fout) >= 1 =>
         /\ Len(fout[1]) = Len(fin)
         /\ \A k \in 1..Len(fin) :
              /\ fout[1][k].method = fin[k].method
              /\ fout[1][k].coord_names = fin[k].coord_names
              /\ fout[1][k].comments = fin[k].comments
              /\ fout[1][k].intervals = SelectSeq(fin[k].intervals, NoHour)
    /\ Len(fout) = 2 => fout[2] = fout[1]

C13_Witness ==
    /\ pc = "fixed twice"
    /\ Len(fin) = 2
    /\ fin[1].intervals = <<Hour1, Day1>>
    /\ fin[2].intervals = <<Day1, Hours6>>
    /\ fout[1] # fin
    /\ fout[2][1].intervals = <<Day1>>
    /\ fout[2][2].intervals = <<Day1>>

----------------------------------------------------------------------------
(* The input and output paths: um2nc.py __main__, lines 419-443, and the   *)
(* amami parser, callback_function and create_unexistent_file.             *)

MaxSuffix == 2

\* An option or positional argument that was not given.
None == "None"

\* create_unexistent_file, the loop from n on: the first of path, path_2,
\* path_3, ... that os.path.exists does not find.
RECURSIVE NewPath(_, _, _)
NewPath(path, n, exists) ==
    LET newpath == IF n = 1 THEN path ELSE path \o "_" \o Dec(n)
    IN  IF newpath \in exists THEN NewPath(path, n + 1, exists) ELSE newpath

create_unexistent_file(path, exists) == NewPath(path, 1, exists)

\* callback_function of the amami parser: known_infile/known_outfile are
\* known_args.infile/outfile, the values of -i/-o, unknown_args the remaining arguments.
callback_function(known_infile, known_outfile, unknown_args, exists) ==
    IF \/ Len(unknown_args) > 2
       \/ (known_infile # None /\ known_outfile # None /\ Len(unknown_args) > 0)
       \/ ((known_infile = None) # (known_outfile = None) /\ Len(unknown_args) > 1)
    THEN [raised |-> "ParsingError", infile |-> None, outfile |-> None]
    ELSE IF known_infile = None /\ Len(unknown_args) = 0
    THEN [raised |-> "ParsingError", infile |-> None, outfile |-> None]
    ELSE IF known_infile = None
    THEN [raised |-> "none", infile |-> unknown_args[1],
          outfile |-> IF known_outfile # None THEN known_outfile
                      ELSE IF Len(unknown_args) = 2 THEN unknown_args[2]
                      ELSE create_unexistent_file(unknown_args[1] \o ".nc", exists)]
    ELSE IF known_outfile = None
    THEN [raised |-> "none", infile |-> known_infile,
          outfile |-> IF Len(unknown_args) = 1 THEN unknown_args[1]
                      ELSE create_unexistent_file(known_infile \o ".nc", exists)]
    ELSE [raised |-> "none", infile |-> known_infile, outfile |-> known_outfile]

\* __main__ of um2nc.py, lines 419-443: known_infile/known_outfile are args.infile/
\* args.outfile, the values of -i/-o, infile_/outfile_ the positional arguments.
MainPaths(known_infile, infile_, known_outfile, outfile_, exists) ==
    LET tooMany == [raised |-> "QParseError", infile |-> None, outfile |-> None]
        inpath == IF known_infile # None THEN known_infile ELSE infile_
    IN  IF known_infile # None /\ infile_ # None /\ ~(known_outfile = None /\ outfile_ = None)
        THEN tooMany
        ELSE IF known_infile = None /\ infile_ = None
        THEN tooMany
        ELSE IF known_infile # None /\ infile_ # None
        THEN [raised |-> "none", infile |-> inpath, outfile |-> infile_]
        ELSE IF known_outfile # None
        THEN IF outfile_ # None THEN tooMany
             ELSE [raised |-> "none", infile |-> inpath, outfile |-> known_outfile]
        ELSE IF outfile_ # None
        THEN [raised |-> "none", infile |-> inpath, outfile |-> outfile_]
        ELSE [raised |-> "none", infile |-> inpath, outfile |-> inpath \o ".nc"]

\* The names the files on disk may have.
FilePool ==
    UNION {{p \o ".nc"} \cup {p \o ".nc_" \o Dec(n) : n \in 2..MaxSuffix} : p \in {"a", "b"}}

MaxArgs == 3

\* The words of a command line.
Words == {"a", "b", "out.nc", "-i", "-o", "--nohist"}

OptionStrings == {"-i", "-o", "--nohist"}

\* parser.parse_args() for the arguments of lines 386-393, from the word at
\* position k on.  st holds the values bound so far: infile, outfile (-i, -o),
\* pos (the words bound to infile_ and outfile_) and closed (the two
\* positionals have been consumed).  An option with its value missing and a
\* word that no argument takes end the parse with SystemExit(2).  Up to
\* Python 3.12.6 argparse consumes both nargs='?' positionals at the first
\* run of words, so a word after a later option is unrecognized; with
\* interleaved (Python 3.12.7 and later) it is bound to the next positional.
RECURSIVE ParseFrom(_, _, _, _)
ParseFrom(argv, k, st, interleaved) ==
    IF k > Len(argv) THEN st
    ELSE IF argv[k] = "--nohist"
    THEN ParseFrom(argv, k + 1, [st EXCEPT !.closed = st.closed \/ st.pos # <<>>],
                   interleaved)
    ELSE IF argv[k] \in {"-i", "-o"}
    THEN IF k = Len(argv) \/ argv[k + 1] \in OptionStrings
         THEN [st EXCEPT !.raised = "SystemExit(2)"]
         ELSE ParseFrom(argv, k + 2,
                        [st EXCEPT !.known_infile = IF argv[k] = "-i" THEN argv[k + 1] ELSE @,
                                   !.known_outfile = IF argv[k] = "-o" THEN argv[k + 1] ELSE @,
                                   !.closed = st.closed \/ st.pos # <<>>],
                        interleaved)
    ELSE IF Len(st.pos) = 2 \/ (st.closed /\ ~interleaved)
    THEN [st EXCEPT !.raised = "SystemExit(2)"]
    ELSE ParseFrom(argv, k + 1, [st EXCEPT !.pos = Append(st.pos, argv[k])], interleaved)

\* args = parser.parse_args()
parse_args(argv, interleaved) ==
    ParseFrom(argv, 1,
              [raised |-> "none", known_infile |-> None, known_outfile |-> None,
               pos |-> <<>>, closed |-> FALSE],
              interleaved)

\* The n-th positional argument (nargs='?': None when no word is bound).
Positional(pos, n) == IF Len(pos) >= n THEN pos[n] ELSE None

\* Lines 417-443: the command line parsed, then the paths determined.
MainCommand(argv, interleaved, exists) ==
    LET a == parse_args(argv, interleaved)
    IN  IF a.raised # "none"
        THEN [raised |-> a.raised, infile |-> None, outfile |-> None]
        ELSE MainPaths(a.known_infile, Positional(a.pos, 1),
                       a.known_outfile, Positional(a.pos, 2), exists)

InitPath ==
    /\ RestIdle
    /\ pc = "parse"
    /\ \/ fin \in [entry : {"um2nc.py"}, argv : BoundedSeqs(Words, MaxArgs),
                   interleaved : BOOLEAN, exists : SUBSET FilePool]
       \/ fin \in [entry : {"amami"}, i : {None, "a"}, o : {None, "out.nc"},
                   unknown_args : BoundedSeqs({"b", "out.nc"}, MaxArgs),
                   exists : SUBSET FilePool]
    /\ fout = <<>>

\* python um2nc.py argv
ParseMain ==
    /\ pc = "parse"
    /\ fin.entry = "um2nc.py"
    /\ fout' = MainCommand(fin.argv, fin.interleaved, fin.exists)
    /\ pc' = "parsed"
    /\ UNCHANGED fin
    /\ UNCHANGED restVars

\* amami um2nc: the callback on the namespace of the known arguments and the
\* list of the remaining ones.
ParseCallback ==
    /\ pc = "parse"
    /\ fin.entry = "amami"
    /\ fout' = callback_function(fin.i, fin.o, fin.unknown_args, fin.exists)
    /\ pc' = "parsed"
    /\ UNCHANGED fin
    /\ UNCHANGED restVars

NextPath == ParseMain \/ ParseCallback

SpecPath == InitPath /\ [][NextPath]_vars

\* The words of argv that are neither options nor values of options.
RECURSIVE PlainWords(_)
PlainWords(argv) ==
    IF argv = <<>> THEN <<>>
    ELSE IF Head(argv) \in {"-i", "-o"} THEN PlainWords(Tail(Tail(argv)))
    ELSE IF Head(argv) = "--nohist" THEN PlainWords(Tail(argv))
    ELSE <<Head(argv)>> \o PlainWords(Tail(argv))

\* The command line is accepted and names an input file and no output path.
NoOutputGiven ==
    /\ fout.raised = "none"
    /\ \/ /\ fin.entry = "um2nc.py"
          /\ \A k \in 1..Len(fin.argv) : fin.argv[k] # "-o"
          /\ LET i == \E k \in 1..Len(fin.argv) : fin.argv[k] = "-i"
                 n == Len(PlainWords(fin.argv))
             IN  (i /\ n = 0) \/ (~i /\ n = 1)
       \/ /\ fin.entry = "amami"
          /\ fin.o = None
          /\ \/ fin.i # None /\ Len(fin.unknown_args) = 0
             \/ fin.i = None /\ Len(fin.unknown_args) = 1

\* C14: given no output path, the command uses the input path + ".nc" when no
\* file of that name exists and otherwise a suffixed name at which no file
\* exists: an existing file is never the default output.
C14_DefaultPathFree ==
    (pc = "parsed" /\ NoOutputGiven) =>
        /\ fout.raised = "none"
        /\ fout.outfile \notin fin.exists
        /\ (fout.infile \o ".nc") \notin fin.exists => fout.outfile = fout.infile \o ".nc"

----------------------------------------------------------------------------
(* cubewrite, lines 110-188: fill value, time coordinate, dimension order *)

\* A coordinate value num/den.
Rat(n) == [num |-> n, den |-> 1]

\* x/24.
Over24(x) == [num |-> x.num, den |-> 24 * x.den]

HoursSince1970 == "hours since 1970-01-01 00:00:00"
DaysSince1970 == "days since 1970-01-01 00:00"
DaysSince0001 == "days since 0001-01-01 00:00"

\* Day number (0 at 1970-01-01) of a date of the proleptic Gregorian calendar.
DaysFromCivil(y, m, d) ==
    LET yy  == IF m <= 2 THEN y - 1 ELSE y
        era == yy \div 400
        yoe == yy - era * 400
        mp  == IF m > 2 THEN m - 3 ELSE m + 9
        doy == (153 * mp + 2) \div 5 + d - 1
        doe == yoe * 365 + yoe \div 4 - yoe \div 100 + doy
    IN  era * 146097 + doe - 719468

\* The date of a day number.
CivilFromDays(z) ==
    LET zz  == z + 719468
        era == zz \div 146097
        doe == zz - era * 146097
        yoe == (doe - doe \div 1460 + doe \div 36524 - doe \div 146096) \div 365
        doy == doe - (365 * yoe + yoe \div 4 - yoe \div 100)
        mp  == (5 * doy + 2) \div 153
        d   == doy - (153 * mp + 2) \div 5 + 1
        m   == IF mp < 10 THEN mp + 3 ELSE mp - 9
    IN  [year |-> yoe + era * 400 + (IF m <= 2 THEN 1 ELSE 0), month |-> m, day |-> d]

\* units.num2date(h) for whole hours since 1970 in the proleptic Gregorian
\* calendar.
Num2Date(h) ==
    LET date == CivilFromDays(h \div 24)
    IN  [year |-> date.year, month |-> date.month, day |-> date.day, hour |-> h % 24]

\* newunits.date2num(date): days since 0001-01-01 00:00.
Date2Num(date) ==
    [num |-> 24 * (DaysFromCivil(date.year, date.month, date.day) - DaysFromCivil(1, 1, 1))
             + date.hour,
     den |-> 24]

\* convert_proleptic(time): every point and bound decoded to a date and
\* encoded in days since 0001-01-01.
convert_proleptic(time) ==
    [time EXCEPT
        !.points = [i \in 1..Len(time.points) |-> Date2Num(Num2Date(time.points[i].num))],
        !.bounds = [i \in 1..Len(time.bounds) |->
                       [j \in 1..2 |-> Date2Num(Num2Date(time.bounds[i][j].num))]],
        !.units = DaysSince0001,
        !.calendar = "proleptic_gregorian"]

\* Lines 145-155: the time coordinate after the conversion from hours to days.
NormalizeTime(time, reftime) ==
    IF time.calendar = "proleptic_gregorian" /\ Num2Date(reftime.points[1].num).year < 1600
    THEN convert_proleptic(time)
    ELSE [time EXCEPT
            !.units = DaysSince1970,
            !.calendar = IF time.calendar = "gregorian" THEN "proleptic_gregorian"
                         ELSE time.calendar,
            !.points = [i \in 1..Len(time.points) |-> Over24(time.points[i])],
            !.bounds = [i \in 1..Len(time.bounds) |->
                           [j \in 1..2 |-> Over24(time.bounds[i][j])]]]

\* cube.remove_coord(name)
RemoveCoord(coords, name) == [n \in DOMAIN coords \ {name} |-> coords[n]]

\* The try block with both remove_coord calls left out.
ForecastBlock_NoRemove(coords) ==
    IF "forecast_reference_time" \notin DOMAIN coords \/ "time" \notin DOMAIN coords
    THEN [coords |-> coords, raised |-> "none"]
    ELSE [coords |-> [coords EXCEPT !["time"] =
                         NormalizeTime(coords["time"], coords["forecast_reference_time"])],
          raised |-> "none"]

\* Lines 140-160: the coordinates of the cube afterwards.  A coordinate that
\* is not found ends the block (CoordinateNotFoundError is caught); the failed
\* assertion leaves cubewrite.
ForecastBlock(coords) ==
    IF "forecast_reference_time" \notin DOMAIN coords
    THEN [coords |-> coords, raised |-> "none"]
    ELSE IF "time" \notin DOMAIN coords
    THEN [coords |-> coords, raised |-> "none"]
    ELSE IF coords["time"].units # HoursSince1970
    THEN [coords |-> coords, raised |-> "AssertionError"]
    ELSE LET normalized == [coords EXCEPT !["time"] =
                               NormalizeTime(coords["time"], coords["forecast_reference_time"])]
         IN  IF "forecast_period" \notin DOMAIN coords
             THEN [coords |-> normalized, raised |-> "none"]
             ELSE [coords |-> RemoveCoord(RemoveCoord(normalized, "forecast_period"),
                                          "forecast_reference_time"),
                   raised |-> "none"]

\* dtype.kind and dtype.itemsize
Kind(dtype) == IF dtype \in {"float32", "float64"} THEN "f" ELSE "i"

ItemSize(dtype) == IF dtype \in {"float64", "int64"} THEN 8 ELSE 4

\* netCDF4.default_fillvals, the entries of the integer dtypes.
default_fillvals(key) ==
    CASE key = "i4" -> "-2147483647"
      [] key = "i8" -> "-9223372036854775806"

\* The fill value with the test of the kind left out.
FillValue_AlwaysFloat(dtype) == "1e20"

\* Lines 130-134.
FillValue(dtype) ==
    IF Kind(dtype) = "f" THEN "1e20"
    ELSE default_fillvals(Kind(dtype) \o Dec(ItemSize(dtype)))

\* The time dimension exchanged with dimension 0.
NewOrder_Swap(tdim, ndim) ==
    [i \in 1..ndim |-> IF i = 1 THEN tdim ELSE IF i - 1 = tdim THEN 0 ELSE i - 1]

\* neworder = list(range(ndim)); neworder.remove(tdim); neworder.insert(0, tdim)
NewOrder(tdim, ndim) ==
    <<tdim>> \o [i \in 1..(ndim - 1) |-> IF i - 1 < tdim THEN i - 1 ELSE i]

\* The 0-based position of x in the sequence s.
IndexOf(s, x) == (CHOOSE i \in 1..Len(s) : s[i] = x) - 1

\* cube.transpose(neworder): dimension i of the result is dimension
\* neworder[i] of the cube; the coordinates follow their dimensions.
Transpose(c, neworder) ==
    [c EXCEPT
        !.dims = [i \in 1..Len(c.dims) |-> c.dims[neworder[i] + 1]],
        !.shape = [i \in 1..Len(c.shape) |-> c.shape[neworder[i] + 1]],
        !.coords = [n \in DOMAIN c.coords |->
                      IF n = "time"
                      THEN [c.coords[n] EXCEPT
                              !.dims = [k \in 1..Len(c.coords[n].dims) |->
                                           IndexOf(neworder, c.coords[n].dims[k])]]
                      ELSE c.coords[n]]]

\* iris.util.new_axis(cube, cube.coord('time')): a new cube with a leading
\* dimension of length 1 that the time coordinate spans.
new_axis(c) ==
    [c EXCEPT
        !.dims = <<"time">> \o c.dims,
        !.shape = <<1>> \o c.shape,
        !.coords = [n \in DOMAIN c.coords |->
                      IF n = "time" THEN [c.coords[n] EXCEPT !.dims = <<0>>]
                      ELSE c.coords[n]]]

\* Lines 169-188: the cube given to sman.write and its unlimited dimensions.
WriteOrdered(c) ==
    IF "time" \notin DOMAIN c.coords
    THEN [saved |-> c, unlimited |-> {}]
    ELSE LET tdim == c.coords["time"].dims
         IN  IF tdim # <<>>
             THEN [saved |-> IF tdim # <<0>>
                             THEN Transpose(c, NewOrder(tdim[1], Len(c.dims)))
                             ELSE c,
                   unlimited |-> {"time"}]
             ELSE [saved |-> new_axis(c), unlimited |-> {"time"}]

\* cubewrite(cube, sman, compression, use64bit, verbose)
cubewrite(cube, use64bit) ==
    LET narrowed == WrittenCube(cube, use64bit)
        fill_value == FillValue(narrowed.dtype)
        filled == [narrowed EXCEPT
                     !.missing_value = [value |-> fill_value, dtype |-> narrowed.dtype]]
        f == ForecastBlock(filled.coords)
        c == [filled EXCEPT !.coords = f.coords]
    IN  IF f.raised # "none"
        THEN [raised |-> f.raised, saved |-> c, unlimited |-> {}, fill_value |-> fill_value]
        ELSE [raised |-> "none", saved |-> WriteOrdered(c).saved,
              unlimited |-> WriteOrdered(c).unlimited, fill_value |-> fill_value]

----------------------------------------------------------------------------
(* The cubes that reach cubewrite *)

Dtypes == {"float64", "float32", "int64", "int32"}

WriteLevels == <<850, 500>>

\* The dimensions without time, with their lengths.
SpaceDims == <<"pressure", "latitude", "longitude">>
SpaceShape == <<2, 3, 4>>

\* s with x put at the 0-based position k.
InsertAt(s, k, x) == SubSeq(s, 1, k) \o <<x>> \o SubSeq(s, k + 1, Len(s))

\* Reference times in hours since 1970: 1500-01-01, the last hour of 1599,
\* the first of 1600, 1850-01-01.
RefHours == {0 - 4119936, 0 - 3243361, 0 - 3243360, 0 - 1051896}

\* pg_calendar, lines 13-22: the calendar of a field with lbtim.ic = ic.
pg_calendar(ic) ==
    IF ic = 2 THEN "360_day"
    ELSE IF ic = 4 THEN "365_day"
    ELSE "standard"

\* time.units.calendar of a unit made with that calendar: cf_units 2 reports
\* 'standard' under its alias 'gregorian', cf_units 3 as 'standard'.
UnitCalendar(calendar, aliased) ==
    IF calendar = "standard" /\ aliased THEN "gregorian" ELSE calendar

\* The calendars of the time coordinates the reader delivers.
Calendars == {UnitCalendar(pg_calendar(ic), aliased) : ic \in 0..4, aliased \in BOOLEAN}

\* The time coordinate of a field: n points from 24 hours after the
\* reference time on, 12 hours apart, with or without bounds.
TimeCoord(ref, n, calendar, bounded, dims) ==
    [units |-> HoursSince1970, calendar |-> calendar,
     points |-> [i \in 1..n |-> Rat(ref + 12 + 12 * i)],
     bounds |-> IF bounded
                THEN [i \in 1..n |-> <<Rat(ref + 12 * i), Rat(ref + 24 + 12 * i)>>]
                ELSE <<>>,
     dims |-> dims]

\* The coordinates the reader sets from the time header of a field: none,
\* time alone (no forecast), or time with forecast_period and
\* forecast_reference_time.
TimeCoordSets(n, dims) ==
    {[x \in {} |-> x]}
    \cup {[x \in {"time"} |-> TimeCoord(0, n, cal, FALSE, dims)] : cal \in Calendars}
    \cup {[x \in {"time", "forecast_period", "forecast_reference_time"} |->
             CASE x = "time" -> TimeCoord(ref, n, cal, b, dims)
               [] x = "forecast_period" -> [points |-> <<Rat(24)>>]
               [] x = "forecast_reference_time" -> [points |-> <<Rat(ref)>>]]
          : ref \in RefHours, cal \in Calendars, b \in BOOLEAN}

\* A cube with its dimensions and coordinates: time spans dimension k, or is a
\* scalar coordinate (k = -1).
WriteCube(code, dtype, k, coords) ==
    [n \in {"dims", "shape", "coords", "missing_value"} |->
        CASE n = "dims" -> IF k >= 0 /\ "time" \in DOMAIN coords
                           THEN InsertAt(SpaceDims, k, "time") ELSE SpaceDims
          [] n = "shape" -> IF k >= 0 /\ "time" \in DOMAIN coords
                            THEN InsertAt(SpaceShape, k, 2) ELSE SpaceShape
          [] n = "coords" -> coords
          [] n = "missing_value" -> "unset"]
    @@ MkCube(code, WriteLevels, DefaultData(code, WriteLevels), dtype, TRUE)

WriteCubes ==
    UNION {{WriteCube(code, dtype, k, coords) :
               coords \in TimeCoordSets(IF k >= 0 THEN 2 ELSE 1,
                                        IF k >= 0 THEN <<k>> ELSE <<>>)}
           : code \in {<<0, 4>>, <<30, 294>>}, dtype \in Dtypes, k \in (0 - 1)..3}

\* The mask 30/304 of the file, on the levels of the field.
WriteMask == MkCube(<<30, 304>>, WriteLevels, DefaultData(<<30, 304>>, WriteLevels),
                    "float32", TRUE)

InitWrite ==
    /\ RestIdle
    /\ pc = "field"
    /\ fin \in [cube : WriteCubes, use64bit : BOOLEAN]
    /\ fout = [cube |-> fin.cube, masked |-> FALSE]

\* Lines 359-366: a temperature-kind field is masked before it is written.
MaskField ==
    /\ pc = "field"
    /\ NeedsMaskT(fin.cube)
    /\ fout' = [cube |-> ApplyMask(fin.cube, WriteMask, HcritDefault).cube, masked |-> TRUE]
    /\ pc' = "write"
    /\ UNCHANGED fin
    /\ UNCHANGED restVars

\* Any other field goes to cubewrite as it is.
PassField ==
    /\ pc = "field"
    /\ ~NeedsMaskT(fin.cube)
    /\ pc' = "write"
    /\ UNCHANGED <<fin, fout>>
    /\ UNCHANGED restVars

\* Line 369: cubewrite(c, sman, args.compression, args.use64bit, args.verbose)
Cubewrite ==
    /\ pc = "write"
    /\ fout' = [r \in {"result"} |-> cubewrite(fout.cube, fin.use64bit)] @@ fout
    /\ pc' = "written"
    /\ UNCHANGED fin
    /\ UNCHANGED restVars

NextWrite == MaskField \/ PassField \/ Cubewrite

SpecWrite == InitWrite /\ [][NextWrite]_vars

----------------------------------------------------------------------------
(* C12, C15, C16: the cube given to sman.write *)

WriteDone == pc = "written"

Saved == fout.result.saved

\* s without its elements equal to x.
Without(s, x) == SelectSeq(s, LAMBDA e : e # x)

\* The length of the dimension called name.
LengthOf(c, name) == c.shape[IndexOf(c.dims, name) + 1]

HadTime == "time" \in DOMAIN fin.cube.coords

\* C12: a written field with a time coordinate has time as its leading
\* dimension.  If time spanned dimension k > 0 the dimensions are time
\* followed by the others in their original order, none lost or duplicated
\* and each with its length; a scalar time gets a new leading dimension of
\* length 1; a field with time leading keeps its order.
C12_TimeLeads ==
    (WriteDone /\ HadTime) =>
        LET old == fin.cube
            tdim == old.coords["time"].dims
        IN  /\ fout.result.raised = "none"
            /\ Saved.dims[1] = "time"
            /\ Saved.coords["time"].dims = <<0>>
            /\ tdim = <<>> =>
                 /\ Saved.dims = <<"time">> \o old.dims
                 /\ Saved.shape = <<1>> \o old.shape
            /\ tdim = <<0>> =>
                 /\ Saved.dims = old.dims
                 /\ Saved.shape = old.shape
            /\ (tdim # <<>> /\ tdim # <<0>>) =>
                 /\ old.dims[tdim[1] + 1] = "time"
                 /\ Tail(Saved.dims) = Without(old.dims, "time")
                 /\ Len(Saved.dims) = Len(old.dims)
                 /\ \A n \in Range(old.dims) : LengthOf(Saved, n) = LengthOf(old, n)

C12_Witness ==
    /\ WriteDone
    /\ fin.cube.dims = <<"pressure", "latitude", "time", "longitude">>
    /\ Saved.dims = <<"time", "pressure", "latitude", "longitude">>
    /\ Saved.shape = <<2, 2, 3, 4>>

HadReferenceTime == "forecast_reference_time" \in DOMAIN fin.cube.coords

\* The reference time lies before 1600-01-01 00:00.
RefBefore1600 == fin.cube.coords["forecast_reference_time"].points[1].num < 0 - 3243360

\* Days from 0001-01-01 to 1970-01-01 in the proleptic Gregorian calendar.
EpochShiftDays == 719162

\* y is x hours expressed in days, counted from shift days before 1970.
IsDaysOf(y, x, shift) == y.num * 24 * x.den = (x.num + 24 * shift * x.den) * y.den

\* The time coordinate new is old normalized once: units in days, every
\* point and bound divided by 24 (and moved to the epoch 0001 when the
\* calendar is proleptic Gregorian and the reference time is before 1600).
NormalizedOnce(new, old) ==
    LET early == old.calendar = "proleptic_gregorian" /\ RefBefore1600
        shift == IF early THEN EpochShiftDays ELSE 0
    IN  /\ new.units = IF early THEN DaysSince0001 ELSE DaysSince1970
        /\ new.calendar = IF old.calendar = "gregorian" THEN "proleptic_gregorian"
                          ELSE old.calendar
        /\ Len(new.points) = Len(old.points)
        /\ \A i \in 1..Len(old.points) : IsDaysOf(new.points[i], old.points[i], shift)
        /\ Len(new.bounds) = Len(old.bounds)
        /\ \A i \in 1..Len(old.bounds) : \A j \in 1..2 :
               IsDaysOf(new.bounds[i][j], old.bounds[i][j], shift)

\* The coordinate apart from the dimensions it spans.
Values(coord) == [units |-> coord.units, calendar |-> coord.calendar,
                  points |-> coord.points, bounds |-> coord.bounds]

\* C15: a field that reaches cubewrite with a forecast_reference_time
\* coordinate is written with its time coordinate normalized once and with
\* neither forecast_period nor forecast_reference_time; a field without one
\* is written without error, its coordinates as they were.
C15_ForecastCoords ==
    WriteDone =>
        /\ fout.result.raised = "none"
        /\ HadReferenceTime =>
             /\ DOMAIN Saved.coords = {"time"}
             /\ NormalizedOnce(Saved.coords["time"], fin.cube.coords["time"])
        /\ ~HadReferenceTime =>
             /\ DOMAIN Saved.coords = DOMAIN fin.cube.coords
             /\ HadTime => Values(Saved.coords["time"]) = Values(fin.cube.coords["time"])

C15_Witness ==
    /\ WriteDone
    /\ HadReferenceTime /\ RefBefore1600
    /\ "forecast_period" \in DOMAIN fin.cube.coords
    /\ Len(fin.cube.coords["time"].bounds) = 2
    /\ fin.cube.coords["time"].calendar = "gregorian"
    /\ Saved.coords["time"].units = DaysSince1970
    /\ Saved.coords["time"].calendar = "proleptic_gregorian"
    /\ Saved.coords["time"].points[1].den = 24
    /\ DOMAIN Saved.coords = {"time"}

\* C16: without --64 no written field is float64 or int64 (float64 becomes
\* float32, int64 becomes int32, other dtypes stay); with --64 an unmasked
\* field keeps its dtype; a field that went through apply_mask is float32 in
\* both modes; missing_value is 1e20 exactly for the float dtypes and the
\* netCDF default of the dtype otherwise.
C16_DtypeAndFill ==
    WriteDone =>
        LET old == fin.cube.dtype
            new == Saved.dtype
            mv  == Saved.missing_value
        IN  /\ ~fin.use64bit => new \notin {"float64", "int64"}
            /\ (~fin.use64bit /\ ~fout.masked) =>
                 new = (CASE old = "float64" -> "float32"
                          [] old = "int64" -> "int32"
                          [] OTHER -> old)
            /\ (fin.use64bit /\ ~fout.masked) => new = old
            /\ fout.masked => new = "float32"
            /\ mv.dtype = new
            /\ fout.result.fill_value = mv.value
            /\ (mv.value = "1e20") <=> (new \in {"float32", "float64"})
            /\ new = "int32" => mv.value = "-2147483647"
            /\ new = "int64" => mv.value = "-9223372036854775806"

C16_Witness ==
    /\ WriteDone
    /\ ~fin.use64bit /\ ~fout.masked
    /\ fin.cube.dtype = "int64"
    /\ Saved.dtype = "int32"
    /\ Saved.missing_value.value = "-2147483647"

====
